---- MODULE Spec2Model ----
(***************************************************************************)
(* Model of reddit-thread-to-markdown.user.js: a userscript that adds a    *)
(* "Scrape to Markdown" button to a Reddit thread page and, on click,      *)
(* reads the post and the comments out of the DOM, renders them as         *)
(* Markdown and hands the text and a file name to a download.              *)
(*                                                                         *)
(* Text is a sequence of one-character strings.  The JavaScript values     *)
(* null and undefined are the one-element sequences Null and Undefined,    *)
(* whose element is no character.  The file holds two script instances     *)
(* (lines 12-397 and 410-606); both are modelled.                          *)
(***************************************************************************)
EXTENDS Integers, Sequences, FiniteSets, TLC

VARIABLES
    host,       \* the DOM the page owns: post, credit bar, comment tree, title
    loads,      \* number of load events dispatched so far
    timers,     \* pending 2-second timers, in firing order: script instance ids
    buttons,    \* buttons with id scrape-to-markdown-btn in the document: the instance whose scrapeThread each one calls
    pending,    \* click events that arrived and are not yet dispatched
    clicks,     \* click events dispatched so far
    runs,       \* scrapeThread invocations in progress
    outcome,    \* outcome[k]: how the run of click k ended (or "running")
    sink,       \* what downloadMarkdown received, in order
    arg,        \* input of the pure function under check
    res         \* its result

vars == <<host, loads, timers, buttons, pending, clicks, runs, outcome, sink, arg, res>>

-----------------------------------------------------------------------------
(* Bounds of the model *)

MaxComments == 2
MaxClicks == 2
MaxLoads == 1
MaxParts == 3
MaxNodes == 3
MaxBodyParts == 3
MaxDepth == 2
MaxRecords == 2

-----------------------------------------------------------------------------
(* JavaScript values and text *)

Null == <<"null">>
Undefined == <<"undefined">>

NL == "\n"

\* Boolean coercion of a string-or-null value: null, undefined and "" are falsy.
Truthy(v) == v /= Null /\ v /= Undefined /\ v /= <<>>

\* String(v) as a template literal interpolates it.
ToStr(v) ==
    IF v = Null THEN <<"n", "u", "l", "l">>
    ELSE IF v = Undefined THEN <<"u", "n", "d", "e", "f", "i", "n", "e", "d">>
    ELSE v

\* a || b
OrElse(a, b) == IF Truthy(a) THEN a ELSE b

WhiteSpace == {" ", "\n", "\t", "\r"}

RECURSIVE TrimStart(_)
TrimStart(s) ==
    IF s /= <<>> /\ Head(s) \in WhiteSpace THEN TrimStart(Tail(s)) ELSE s

RECURSIVE TrimEnd(_)
TrimEnd(s) ==
    IF s /= <<>> /\ s[Len(s)] \in WhiteSpace
    THEN TrimEnd(SubSeq(s, 1, Len(s) - 1)) ELSE s

\* String.prototype.trim
Trim(s) == TrimEnd(TrimStart(s))

\* String.prototype.repeat: a negative count throws RangeError.
RepeatThrows(n) == n < 0

RECURSIVE Repeat(_, _)
Repeat(s, n) == IF n <= 0 THEN <<>> ELSE s \o Repeat(s, n - 1)

Digits == <<"0", "1", "2", "3", "4", "5", "6", "7", "8", "9">>
DigitSet == {Digits[i] : i \in DOMAIN Digits}
DigitVal(c) == (CHOOSE i \in DOMAIN Digits : Digits[i] = c) - 1

RECURSIVE DigitRun(_)
DigitRun(s) ==
    IF s /= <<>> /\ Head(s) \in DigitSet THEN <<Head(s)>> \o DigitRun(Tail(s)) ELSE <<>>

RECURSIVE Decimal(_, _)
Decimal(ds, acc) ==
    IF ds = <<>> THEN acc ELSE Decimal(Tail(ds), acc * 10 + DigitVal(Head(ds)))

\* parseInt(v, 10): String(v), leading white space skipped, an optional sign,
\* then the longest run of digits; NaN when there is no digit.
ParseInt(v) ==
    LET s == TrimStart(ToStr(v))
        neg == s /= <<>> /\ Head(s) = "-"
        signed == s /= <<>> /\ Head(s) \in {"-", "+"}
        ds == DigitRun(IF signed THEN Tail(s) ELSE s)
    IN  IF ds = <<>> THEN [nan |-> TRUE, val |-> 0]
        ELSE [nan |-> FALSE, val |-> IF neg THEN 0 - Decimal(ds, 0) ELSE Decimal(ds, 0)]

\* parseInt(v, 10) || 0
ParseIntOr0(v) == LET r == ParseInt(v) IN IF r.nan THEN 0 ELSE r.val

\* content.replace(/\n/g, by)
RECURSIVE ReplaceNewlines(_, _)
ReplaceNewlines(s, by) ==
    IF s = <<>> THEN <<>>
    ELSE (IF Head(s) = NL THEN by ELSE <<Head(s)>>) \o ReplaceNewlines(Tail(s), by)

Upper == <<"A", "B", "C", "D", "E", "F", "G", "H", "I", "J", "K", "L", "M",
           "N", "O", "P", "Q", "R", "S", "T", "U", "V", "W", "X", "Y", "Z">>
Lower == <<"a", "b", "c", "d", "e", "f", "g", "h", "i", "j", "k", "l", "m",
           "n", "o", "p", "q", "r", "s", "t", "u", "v", "w", "x", "y", "z">>
UpperSet == {Upper[i] : i \in DOMAIN Upper}
LowerSet == {Lower[i] : i \in DOMAIN Lower}

\* The class [a-z0-9] under the i flag.
IsAlnum(c) == c \in UpperSet \cup LowerSet \cup DigitSet

ToLowerChar(c) ==
    IF c \in UpperSet THEN Lower[CHOOSE i \in DOMAIN Upper : Upper[i] = c] ELSE c

\* Index of the first occurrence of pat in s, 0 when there is none.
FirstIndexOf(s, pat) ==
    LET hits == {i \in 1..(Len(s) - Len(pat) + 1) : SubSeq(s, i, i + Len(pat) - 1) = pat}
    IN  IF hits = {} THEN 0 ELSE CHOOSE i \in hits : \A j \in hits : i <= j

\* Length of the longest prefix of s without a line terminator: what .* matches.
RECURSIVE DotStar(_)
DotStar(s) == IF s = <<>> \/ Head(s) \in {"\n", "\r"} THEN 0 ELSE 1 + DotStar(Tail(s))

SubredditMark == <<" ", ":", " ", "r", "/">>

\* title.replace(/ : r\/.*/, ""): the first " : r/" and the rest of its line go.
StripSubreddit(title) ==
    LET i == FirstIndexOf(title, SubredditMark)
    IN  IF i = 0 THEN title
        ELSE LET rest == SubSeq(title, i + Len(SubredditMark), Len(title))
                 n == DotStar(rest)
             IN  SubSeq(title, 1, i - 1) \o SubSeq(rest, n + 1, Len(rest))

\* .replace(/[^a-z0-9]/gi, "_")
Sanitize(s) == [i \in DOMAIN s |-> IF IsAlnum(s[i]) THEN s[i] ELSE "_"]

\* .toLowerCase()
ToLowerCase(s) == [i \in DOMAIN s |-> ToLowerChar(s[i])]

\* FileUtils.generateFilename, on document.title
GenerateFilename(title) ==
    ToLowerCase(Sanitize(StripSubreddit(title))) \o <<".", "m", "d">>

-----------------------------------------------------------------------------
(* Literal text of the templates *)

T_Heading == <<"#", " ">>
T_Subreddit == <<"*", "*", "S", "u", "b", "r", "e", "d", "d", "i", "t", ":", "*", "*", " ", "r", "/">>
T_Author == <<"*", "*", "A", "u", "t", "h", "o", "r", ":", "*", "*", " ", "u", "/">>
T_Score == <<"*", "*", "S", "c", "o", "r", "e", ":", "*", "*", " ">>
T_Separator == <<"-", "-", "-", "\n", "\n", "#", "#", " ", "C", "o", "m", "m", "e", "n", "t", "s", "\n", "\n">>
T_Bullet == <<"-", " ", "*", "*", "u", "/">>
T_ScoreOpen == <<"*", "*", " ", "(", "*">>
T_Points == <<" ", "p", "o", "i", "n", "t", "s", "*", ")", ":", "\n">>
T_Quote == <<" ", " ", ">", " ">>
T_Indent == <<" ", " ">>

-----------------------------------------------------------------------------
(* The DOM as the script reads it.                                         *)
(*   host.post, host.bar, host.tree: whether shreddit-post, its            *)
(*     #pdp-credit-bar and shreddit-comment-tree are in the document       *)
(*   host.postEl: the post element's properties and attributes, its body   *)
(*   host.comments: the shreddit-comment elements in document order        *)
(*   host.title: document.title                                            *)
(* An element a selector may miss is [present, innerText].                 *)
(***************************************************************************)

NoElement == [present |-> FALSE, innerText |-> <<>>]
Element(text) == [present |-> TRUE, innerText |-> text]

\* postElement.prop || postElement.getAttribute(name)
PostField(f) == OrElse(f.prop, f.attr)

\* An extractPostData that also gives up when the post has no body element.
ExtractPostData_BodyRequired(h) ==
    IF ~h.post \/ ~h.postEl.body.present THEN [ok |-> FALSE]
    ELSE [ok |-> TRUE,
          title |-> PostField(h.postEl.title),
          author |-> PostField(h.postEl.author),
          subreddit |-> PostField(h.postEl.subreddit),
          score |-> PostField(h.postEl.score),
          content |-> Trim(h.postEl.body.innerText)]

\* PostExtractor.extractPostData: null only without a post element.
ExtractPostData(h) ==
    IF ~h.post THEN [ok |-> FALSE]
    ELSE [ok |-> TRUE,
          title |-> PostField(h.postEl.title),
          author |-> PostField(h.postEl.author),
          subreddit |-> PostField(h.postEl.subreddit),
          score |-> PostField(h.postEl.score),
          content |-> IF h.postEl.body.present THEN Trim(h.postEl.body.innerText) ELSE <<>>]

\* MarkdownUtils.formatPostHeader
FormatPostHeader(postData) ==
    T_Heading \o ToStr(postData.title) \o <<NL, NL>>
    \o T_Subreddit \o ToStr(postData.subreddit) \o <<NL>>
    \o T_Author \o ToStr(postData.author) \o <<NL>>
    \o T_Score \o ToStr(postData.score) \o <<NL, NL>>

\* The comment's depth as extractCommentData reads it.
CommentDepth(node) == ParseIntOr0(node.depth)

\* The comment's score as extractCommentData reads it.
CommentScore(node) == node.score

\* A test that forgets the body element.
CommentKept_AuthorOnly(node) == Truthy(node.author)

\* The test that keeps a comment: if (!author || !contentElement) return null.
CommentKept(node) == Truthy(node.author) /\ node.body.present

\* CommentExtractor.extractCommentData
ExtractCommentData(node) ==
    IF ~CommentKept(node) THEN [ok |-> FALSE]
    ELSE [ok |-> TRUE,
          author |-> node.author,
          score |-> CommentScore(node),
          content |-> Trim(node.body.innerText),
          depth |-> CommentDepth(node)]

CommentRecord(d) ==
    [author |-> d.author, score |-> d.score, content |-> d.content, depth |-> d.depth]

\* The loop of extractAllComments over the elements, pushing what is not null.
RECURSIVE ExtractLoop(_)
ExtractLoop(nodes) ==
    IF nodes = <<>> THEN <<>>
    ELSE LET data == ExtractCommentData(Head(nodes))
         IN  (IF data.ok THEN <<CommentRecord(data)>> ELSE <<>>) \o ExtractLoop(Tail(nodes))

\* CommentExtractor.extractAllComments: [] without a comment tree.
ExtractAllComments(h) == IF ~h.tree THEN <<>> ELSE ExtractLoop(h.comments)

\* One indent unit per level instead of two.
IndentCount_Single(depth) == depth

\* "  ".repeat(depth * 2)
IndentCount(depth) == depth * 2

\* formatComment throws where repeat does.
FormatCommentThrows(c) == RepeatThrows(IndentCount(c.depth))

\* The replacement of content.replace(/\n/g, ...): every newline, not the first only.
QuoteBody(content, indent) == ReplaceNewlines(content, <<NL>> \o indent \o T_Quote)

\* MarkdownUtils.formatComment
FormatComment(c) ==
    LET indent == Repeat(T_Indent, IndentCount(c.depth))
    IN  indent \o T_Bullet \o ToStr(c.author) \o T_ScoreOpen \o ToStr(c.score) \o T_Points
        \o indent \o T_Quote \o QuoteBody(c.content, indent) \o <<NL, NL>>

\* A post part that writes the body paragraph also when the body is empty.
RenderPost_AlwaysBody(postData) ==
    FormatPostHeader(postData) \o postData.content \o <<NL, NL>> \o T_Separator

\* The post part of scrapeThread: header, body when truthy, separator.
RenderPost(postData) ==
    FormatPostHeader(postData)
    \o (IF Truthy(postData.content) THEN postData.content \o <<NL, NL>> ELSE <<>>)
    \o T_Separator

\* The comment loop of scrapeThread.
RECURSIVE RenderComments(_)
RenderComments(cs) ==
    IF cs = <<>> THEN <<>> ELSE FormatComment(Head(cs)) \o RenderComments(Tail(cs))

\* What scrapeThread accumulates in markdownContent.
RenderThread(postData, cs) == RenderPost(postData) \o RenderComments(cs)

(* The second script instance (lines 410-606) inlines the same steps. *)

\* processComment: the indent is computed before the author and body test.
ProcessCommentThrows(node) == RepeatThrows(IndentCount(ParseIntOr0(node.depth)))

ProcessComment(node) ==
    IF Truthy(node.author) /\ node.body.present
    THEN FormatComment([author |-> node.author, score |-> node.score,
                        content |-> Trim(node.body.innerText),
                        depth |-> ParseIntOr0(node.depth)])
    ELSE <<>>

\* The post part of the second scrapeThread: the body whenever its element exists.
RenderPost2(h) ==
    FormatPostHeader([title |-> PostField(h.postEl.title),
                      author |-> PostField(h.postEl.author),
                      subreddit |-> PostField(h.postEl.subreddit),
                      score |-> PostField(h.postEl.score)])
    \o (IF h.postEl.body.present THEN Trim(h.postEl.body.innerText) \o <<NL, NL>> ELSE <<>>)
    \o T_Separator

RECURSIVE RenderComments2(_)
RenderComments2(nodes) ==
    IF nodes = <<>> THEN <<>> ELSE ProcessComment(Head(nodes)) \o RenderComments2(Tail(nodes))

-----------------------------------------------------------------------------
(* The page and its events.                                                *)
(* A handler runs to completion before the next event is dispatched,       *)
(* unless it is suspended at an await.                                     *)
(***************************************************************************)

Instances == {1, 2}

\* A scrapeThread that awaits between its post step and its comment step.
AwaitPoints_Yielding == {"comments"}

\* The awaits of scrapeThread: it is declared async and holds none.
AwaitPoints == {}

\* The event loop takes the next task when no handler is executing.
CanRunTask == \A i \in DOMAIN runs : runs[i].pc \in AwaitPoints

\* Frame i may take its next step when no other frame is executing.
CanStep(i) == \A j \in DOMAIN runs : j = i \/ runs[j].pc \in AwaitPoints

RemoveAt(seq, i) == SubSeq(seq, 1, i - 1) \o SubSeq(seq, i + 1, Len(seq))

Text_Hi == <<"H", "i">>
Text_bob == <<"b", "o", "b">>
Text_carol == <<"c", "a", "r", "o", "l">>
Text_alice == <<"a", "l", "i", "c", "e">>
Text_test == <<"t", "e", "s", "t">>
Text_Title == <<"M", "y", " ", "T", "h", "r", "e", "a", "d">>

CommentNode(depth, author, score, body) ==
    [depth |-> depth, author |-> author, score |-> score, body |-> body]

\* Comment elements of the page model: a nested two-line reply without
\* score, and a comment with a negative depth.
PageNodes ==
    { CommentNode(<<"1">>, Text_carol, Null, Element(<<" ", "a", "\n", "b", "\n">>)),
      CommentNode(<<"-", "1">>, Text_bob, <<"3">>, Element(Text_Hi)) }

RECURSIVE SeqsUpTo(_, _)
SeqsUpTo(S, n) ==
    IF n = 0 THEN {<<>>}
    ELSE LET shorter == SeqsUpTo(S, n - 1)
         IN  shorter \cup {Append(q, x) : q \in shorter, x \in S}

PagePostEls ==
    { [title |-> [prop |-> Text_Title, attr |-> Text_Title],
       author |-> [prop |-> Undefined, attr |-> Text_alice],
       subreddit |-> [prop |-> Text_test, attr |-> Null],
       score |-> [prop |-> Undefined, attr |-> <<"1", "0">>],
       body |-> b] : b \in {NoElement, Element(<<>>), Element(<<" ", "P", "\n">>)} }

PageTitles == { Text_Title \o SubredditMark \o Text_test }

Hosts ==
    { [post |-> p, bar |-> b, tree |-> t, postEl |-> e, comments |-> cs, title |-> ti] :
        p \in BOOLEAN, b \in BOOLEAN, t \in BOOLEAN, e \in PagePostEls,
        cs \in SeqsUpTo(PageNodes, MaxComments), ti \in PageTitles }

NoArg == <<>>

Init ==
    /\ host \in Hosts
    /\ loads = 0
    /\ timers = <<>>
    /\ buttons = <<>>
    /\ pending = <<>>
    /\ clicks = 0
    /\ runs = <<>>
    /\ outcome = <<>>
    /\ sink = <<>>
    /\ arg = NoArg
    /\ res = NoArg

\* window "load": each instance's listener starts its 2-second timer, in the
\* order the listeners were added (first instance, then second).
Load ==
    /\ CanRunTask
    /\ loads < MaxLoads
    /\ loads' = loads + 1
    /\ timers' = timers \o <<1, 2>>
    /\ UNCHANGED <<host, buttons, pending, clicks, runs, outcome, sink, arg, res>>

\* addScrapeButton (either instance): the button goes into #pdp-credit-bar of
\* the post, with the instance's scrapeThread as its click listener.
AddScrapeButton(inst) ==
    IF host.post /\ host.bar THEN Append(buttons, inst) ELSE buttons

\* A timer callback without the getElementById test.
TimerFire_NoCheck ==
    /\ CanRunTask
    /\ timers /= <<>>
    /\ buttons' = AddScrapeButton(Head(timers))
    /\ timers' = Tail(timers)
    /\ UNCHANGED <<host, loads, pending, clicks, runs, outcome, sink, arg, res>>

\* The timer callback: add the button unless getElementById finds one.
TimerFire ==
    /\ CanRunTask
    /\ timers /= <<>>
    /\ buttons' = IF buttons = <<>> THEN AddScrapeButton(Head(timers)) ELSE buttons
    /\ timers' = Tail(timers)
    /\ UNCHANGED <<host, loads, pending, clicks, runs, outcome, sink, arg, res>>

\* The page re-renders between tasks: the post, its credit bar or the comment
\* tree appears or goes.  The button sits in the credit bar of the post
\* (appendChild): it leaves the document with either.  A click already on
\* its way still reaches its listener.
HostMutate ==
    /\ CanRunTask
    /\ \E f \in {"post", "bar", "tree"} :
        /\ host' = [host EXCEPT ![f] = ~host[f]]
        /\ buttons' = IF f \in {"post", "bar"} /\ host[f] THEN <<>> ELSE buttons
    /\ UNCHANGED <<loads, timers, pending, clicks, runs, outcome, sink, arg, res>>

\* The user clicks a button; the event waits for the event loop.
UserClick ==
    /\ Len(pending) + clicks < MaxClicks
    /\ \E b \in DOMAIN buttons : pending' = Append(pending, buttons[b])
    /\ UNCHANGED <<host, loads, timers, buttons, clicks, runs, outcome, sink, arg, res>>

\* A scrapeThread whose markdownContent outlives the call: it starts from
\* what the last run delivered.
NewRun_KeepsContent(inst, k) ==
    [inst |-> inst, click |-> k, pc |-> "post",
     md |-> IF sink = <<>> THEN <<>> ELSE sink[Len(sink)].content,
     filename |-> <<>>]

NewRun(inst, k) ==
    [inst |-> inst, click |-> k, pc |-> "post", md |-> <<>>, filename |-> <<>>]

NewOutcome(inst) ==
    [status |-> "running", inst |-> inst, post |-> "unread", tree |-> "unread", named |-> FALSE]

\* The click listener is called: scrapeThread starts with markdownContent = "".
DispatchClick ==
    /\ CanRunTask
    /\ pending /= <<>>
    /\ clicks' = clicks + 1
    /\ pending' = Tail(pending)
    /\ runs' = Append(runs, NewRun(Head(pending), clicks + 1))
    /\ outcome' = Append(outcome, NewOutcome(Head(pending)))
    /\ UNCHANGED <<host, loads, timers, buttons, sink, arg, res>>

Present(b) == IF b THEN "present" ELSE "absent"

\* Step 1 of scrapeThread: query the post; return without one, else render
\* the post part and the separator.
StepPost(i) ==
    LET f == runs[i]
        postData == ExtractPostData(host)
    IN  /\ f.pc = "post"
        /\ CanStep(i)
        /\ IF ~host.post \/ (f.inst = 1 /\ ~postData.ok)
           THEN /\ runs' = RemoveAt(runs, i)
                /\ outcome' = [outcome EXCEPT ![f.click].status = "noPost",
                                              ![f.click].post = Present(host.post)]
           ELSE /\ runs' = [runs EXCEPT ![i].pc = "comments",
                                        ![i].md = f.md \o (IF f.inst = 1 THEN RenderPost(postData)
                                                           ELSE RenderPost2(host))]
                /\ outcome' = [outcome EXCEPT ![f.click].post = "present"]
        /\ UNCHANGED <<host, loads, timers, buttons, pending, clicks, sink, arg, res>>

\* Whether step 2 throws: formatComment on an extracted record (first
\* instance), processComment on an element of the tree (second instance).
CommentsThrow(inst, h) ==
    IF inst = 1
    THEN \E k \in DOMAIN ExtractAllComments(h) : FormatCommentThrows(ExtractAllComments(h)[k])
    ELSE h.tree /\ \E k \in DOMAIN h.comments : ProcessCommentThrows(h.comments[k])

\* What step 2 appends to markdownContent when nothing throws.
CommentsMarkdown(inst, h) ==
    IF inst = 1 THEN RenderComments(ExtractAllComments(h))
    ELSE IF h.tree THEN RenderComments2(h.comments) ELSE <<>>

\* Step 2 of scrapeThread: query the comment tree and render its comments.
\* An exception rejects the promise of the async function: the run ends.
StepComments(i) ==
    LET f == runs[i]
    IN  /\ f.pc = "comments"
        /\ CanStep(i)
        /\ IF CommentsThrow(f.inst, host)
           THEN /\ runs' = RemoveAt(runs, i)
                /\ outcome' = [outcome EXCEPT ![f.click].status = "thrown",
                                              ![f.click].tree = Present(host.tree)]
           ELSE /\ runs' = [runs EXCEPT ![i].pc = "name",
                                        ![i].md = f.md \o CommentsMarkdown(f.inst, host)]
                /\ outcome' = [outcome EXCEPT ![f.click].tree = Present(host.tree)]
        /\ UNCHANGED <<host, loads, timers, buttons, pending, clicks, sink, arg, res>>

\* Step 3 of scrapeThread, first half: the file name from document.title.
StepName(i) ==
    LET f == runs[i]
    IN  /\ f.pc = "name"
        /\ CanStep(i)
        /\ runs' = [runs EXCEPT ![i].pc = "download", ![i].filename = GenerateFilename(host.title)]
        /\ outcome' = [outcome EXCEPT ![f.click].named = TRUE]
        /\ UNCHANGED <<host, loads, timers, buttons, pending, clicks, sink, arg, res>>

\* downloadMarkdown called with its two arguments swapped.
Delivery_Swapped(f) == [content |-> f.filename, filename |-> f.md, click |-> f.click]

\* What downloadMarkdown(content, filename) hands over.
Delivery(f) == [content |-> f.md, filename |-> f.filename, click |-> f.click]

\* Step 3, second half: FileUtils.downloadMarkdown (inlined in the second instance).
StepDownload(i) ==
    LET f == runs[i]
    IN  /\ f.pc = "download"
        /\ CanStep(i)
        /\ sink' = Append(sink, Delivery(f))
        /\ runs' = RemoveAt(runs, i)
        /\ outcome' = [outcome EXCEPT ![f.click].status = "done"]
        /\ UNCHANGED <<host, loads, timers, buttons, pending, clicks, arg, res>>

Next ==
    \/ Load
    \/ TimerFire
    \/ HostMutate
    \/ UserClick
    \/ DispatchClick
    \/ \E i \in DOMAIN runs : StepPost(i)
    \/ \E i \in DOMAIN runs : StepComments(i)
    \/ \E i \in DOMAIN runs : StepName(i)
    \/ \E i \in DOMAIN runs : StepDownload(i)

Spec == Init /\ [][Next]_vars

-----------------------------------------------------------------------------
(* Claims about the run a click starts *)

\* The deliveries the run of click k made.
DeliveredFor(k) == {i \in DOMAIN sink : sink[i].click = k}

\* C1: a run that finds no comment tree is fatal: it derives no file name
\* and delivers nothing to the sink, also when the post is present.
C1_MissingTreeIsFatal ==
    \A k \in DOMAIN outcome :
        outcome[k].tree = "absent" =>
            /\ ~outcome[k].named
            /\ outcome[k].status /= "done"
            /\ DeliveredFor(k) = {}

\* C2: a run that found the post and the comment tree completes and
\* delivers, whatever the comment elements hold: it never ends otherwise.
C2_RecoverableNeverAborts ==
    \A k \in DOMAIN outcome :
        outcome[k].post = "present" /\ outcome[k].tree = "present" =>
            /\ outcome[k].status \in {"running", "done"}
            /\ outcome[k].status = "done" => DeliveredFor(k) /= {}

\* C3: a run that finds no post stops there (no comments read, no file name,
\* no delivery); a run stops at the post only when the post is absent;
\* extractPostData fails exactly when the post is absent, and a post without
\* body element gives the empty body.
C3_MissingPostStopsRun ==
    /\ \A k \in DOMAIN outcome :
        /\ outcome[k].post = "absent" =>
            /\ outcome[k].status = "noPost"
            /\ outcome[k].tree = "unread"
            /\ ~outcome[k].named
            /\ DeliveredFor(k) = {}
        /\ outcome[k].status = "noPost" => outcome[k].post = "absent"
    /\ ExtractPostData(host).ok <=> host.post
    /\ host.post /\ ~host.postEl.body.present => ExtractPostData(host).content = <<>>

\* A run ended at the post step although comments and the tree are there.
C3_Witness ==
    \E k \in DOMAIN outcome :
        /\ outcome[k].status = "noPost"
        /\ host.tree /\ host.comments /= <<>> /\ ~host.post

\* The whole document of the page as instance inst renders it: the post
\* section, the separator, every included comment.
WholeDocument(inst, h) ==
    IF inst = 1 THEN RenderThread(ExtractPostData(h), ExtractAllComments(h))
    ELSE RenderPost2(h) \o CommentsMarkdown(2, h)

C4_Counts ==
    /\ Len(sink) <= clicks
    /\ \A i \in DOMAIN sink : sink[i].click \in 1..clicks
    /\ \A k \in 1..clicks :
        Cardinality(DeliveredFor(k)) = IF outcome[k].status = "done" THEN 1 ELSE 0

C4_Step ==
    sink' /= sink =>
        \E i \in DOMAIN runs :
            /\ runs[i].pc = "download"
            /\ outcome[runs[i].click].status = "running"
            /\ sink' = Append(sink, [content |-> WholeDocument(runs[i].inst, host),
                                     filename |-> GenerateFilename(host.title),
                                     click |-> runs[i].click])

\* C4: the sink receives exactly one delivery for each click whose run
\* reaches the download and none otherwise (none on load, on a timer or
\* before a click), and each delivery is the whole document with the file
\* name derived from the title.
C4_SinkOncePerSuccessfulClick == [](C4_Counts) /\ [][C4_Step]_vars

\* Two clicks, the first run failed and the second delivered.
C4_Witness ==
    /\ clicks = 2
    /\ outcome[1].status \in {"noPost", "thrown"}
    /\ outcome[2].status = "done"
    /\ Len(sink) = 1 /\ sink[1].click = 2

\* C5: never two runs in progress, and a run starts only when none is.
C5_OneRunAtATime == [](Len(runs) <= 1) /\ [][Len(runs') > Len(runs) => runs = <<>>]_vars

\* A second click arrived while a run is between its steps.
C5_Witness == Len(runs) = 1 /\ runs[1].pc = "comments" /\ pending /= <<>>

-----------------------------------------------------------------------------
(* The pure functions, each applied to inputs drawn from a bounded set.    *)
(* The page is idle; arg holds the input and res the result.               *)
(***************************************************************************)

NotApplied == [done |-> FALSE]
Applied(out) == [done |-> TRUE, out |-> out]

Idle ==
    /\ host = NoArg
    /\ loads = 0
    /\ timers = <<>>
    /\ buttons = <<>>
    /\ pending = <<>>
    /\ clicks = 0
    /\ runs = <<>>
    /\ outcome = <<>>
    /\ sink = <<>>

PageVars == <<host, loads, timers, buttons, pending, clicks, runs, outcome, sink>>

\* Text made of up to n pieces.
RECURSIVE TextsUpTo(_, _)
TextsUpTo(pieces, n) ==
    IF n = 0 THEN {<<>>}
    ELSE LET shorter == TextsUpTo(pieces, n - 1)
         IN  shorter \cup {t \o x : t \in shorter, x \in pieces}

(* extractAllComments over a comment tree *)

TreeNodes ==
    { CommentNode(d, a, <<"5">>, b) :
        d \in {Null, <<"1">>},
        a \in {Null, <<>>, Text_bob, Text_carol},
        b \in {NoElement, Element(Text_Hi)} }

InitExtract ==
    /\ Idle
    /\ arg \in {[tree |-> TRUE, comments |-> cs] : cs \in SeqsUpTo(TreeNodes, MaxNodes)}
    /\ res = NotApplied

ApplyExtract ==
    /\ ~res.done
    /\ res' = Applied(ExtractAllComments(arg))
    /\ UNCHANGED <<PageVars, arg>>

SpecExtract == InitExtract /\ [][ApplyExtract]_vars

(* extractCommentData on one element, then formatComment on its record *)

ElementNodes ==
    { CommentNode(d, a, sc, b) :
        d \in {Null, <<>>, <<"x">>, <<"0">>, <<"1">>, <<"1", "2">>, <<"-", "1">>},
        a \in {Null, Text_bob},
        sc \in {Null, <<>>, <<"x">>, <<"5">>, <<"-", "3">>},
        b \in {NoElement, Element(Text_Hi)} }

InitComment ==
    /\ Idle
    /\ arg \in ElementNodes
    /\ res = NotApplied

ApplyExtractOne ==
    /\ ~res.done
    /\ res' = [done |-> TRUE, out |-> ExtractCommentData(arg), md |-> <<>>]
    /\ UNCHANGED <<PageVars, arg>>

ApplyFormatOne ==
    /\ res.done
    /\ res.out.ok
    /\ res.md = <<>>
    /\ ~FormatCommentThrows(res.out)
    /\ res' = [res EXCEPT !.md = FormatComment(CommentRecord(res.out))]
    /\ UNCHANGED <<PageVars, arg>>

SpecComment == InitComment /\ [][ApplyExtractOne \/ ApplyFormatOne]_vars

(* formatComment on a comment record *)

BodyPieces == {<<"a">>, <<NL>>, <<" ">>, <<">">>}

FormatRecords ==
    { [author |-> Text_bob, score |-> sc, content |-> c, depth |-> d] :
        sc \in {<<"5">>, <<"1", "2">>},
        c \in TextsUpTo(BodyPieces, MaxBodyParts),
        d \in 0..MaxDepth }

InitFormat ==
    /\ Idle
    /\ arg \in FormatRecords
    /\ res = NotApplied

ApplyFormat ==
    /\ ~res.done
    /\ ~FormatCommentThrows(arg)
    /\ res' = Applied(FormatComment(arg))
    /\ UNCHANGED <<PageVars, arg>>

SpecFormat == InitFormat /\ [][ApplyFormat]_vars

(* the document of scrapeThread from a post record and comment records *)

Text_HelloWorld == <<"H", "e", "l", "l", "o", " ", "W", "o", "r", "l", "d">>

RenderPosts ==
    { [ok |-> TRUE, title |-> t, author |-> Text_alice, subreddit |-> Text_test,
       score |-> sc, content |-> c] :
        t \in {Text_HelloWorld, <<"T">>},
        sc \in {<<"1", "0">>, <<"0">>},
        c \in {<<>>, <<"P">>, <<"a", NL, "b">>} }

RenderRecords ==
    { [author |-> Text_bob, score |-> <<"5">>, content |-> Text_Hi, depth |-> 0],
      [author |-> Text_carol, score |-> <<"2">>, content |-> <<"R", "e", NL, "h", "i">>, depth |-> 1],
      [author |-> Text_alice, score |-> Null, content |-> <<>>, depth |-> 2] }

InitRender ==
    /\ Idle
    /\ arg \in {[post |-> pd, comments |-> cs] :
                    pd \in RenderPosts, cs \in SeqsUpTo(RenderRecords, MaxRecords)}
    /\ res = NotApplied

ApplyRender ==
    /\ ~res.done
    /\ res' = Applied(RenderThread(arg.post, arg.comments))
    /\ UNCHANGED <<PageVars, arg>>

SpecRender == InitRender /\ [][ApplyRender]_vars

(* generateFilename on a page title *)

TitlePieces ==
    { Text_Title, SubredditMark, Text_test, <<"A">>, <<"1">>, <<" ">>, <<".">>, <<"_">>,
      <<"A", " ", ":", " ", "r", "/", "1">> }

InitName ==
    /\ Idle
    /\ arg \in TextsUpTo(TitlePieces, MaxParts)
    /\ res = NotApplied

ApplyName ==
    /\ ~res.done
    /\ res' = Applied(GenerateFilename(arg))
    /\ UNCHANGED <<PageVars, arg>>

SpecName == InitName /\ [][ApplyName]_vars

-----------------------------------------------------------------------------
(* Claims about the pure functions *)

\* A text as a string.
RECURSIVE Str(_)
Str(s) ==
    IF s = <<>> THEN ""
    ELSE IF Len(s) = 1 THEN s[1]
    ELSE Str(SubSeq(s, 1, Len(s) \div 2)) \o Str(SubSeq(s, Len(s) \div 2 + 1, Len(s)))

\* n space characters.
Spaces(n) == [i \in 1..n |-> " "]

\* The number of newlines in a text.
Newlines(s) == Cardinality({i \in DOMAIN s : s[i] = NL})

\* The pieces of a text between its newlines, in order.
RECURSIVE SplitLines(_)
SplitLines(s) ==
    LET i == FirstIndexOf(s, <<NL>>)
    IN  IF i = 0 THEN <<s>>
        ELSE <<SubSeq(s, 1, i - 1)>> \o SplitLines(SubSeq(s, i + 1, Len(s)))

\* The indices of the elements with a non-empty author and a body element.
KeptIndices(nodes) ==
    {i \in DOMAIN nodes : nodes[i].author \notin {Null, <<>>} /\ nodes[i].body.present}

\* The j-th smallest element of a set of numbers.
Nth(S, j) == CHOOSE i \in S : Cardinality({m \in S : m <= i}) = j

\* C6: the extracted sequence is the elements with a non-empty author and a
\* body element, in document order, and removing an element that is dropped
\* changes no record of the result.
C6_ExtractIsOrderedFilter ==
    res.done =>
        LET nodes == arg.comments
            kept == KeptIndices(nodes)
        IN  /\ Len(res.out) = Cardinality(kept)
            /\ \A j \in DOMAIN res.out :
                /\ res.out[j].author = nodes[Nth(kept, j)].author
                /\ res.out[j].content = nodes[Nth(kept, j)].body.innerText
                /\ res.out[j].score = nodes[Nth(kept, j)].score
                /\ (res.out[j].depth = 1) = (nodes[Nth(kept, j)].depth = <<"1">>)
            /\ \A i \in DOMAIN nodes \ kept :
                ExtractAllComments([arg EXCEPT !.comments = RemoveAt(nodes, i)]) = res.out

\* Three elements, the middle one dropped for its missing body, the outer
\* two kept in order.
C6_Witness ==
    /\ res.done
    /\ Len(arg.comments) = 3
    /\ arg.comments[1].author = Text_carol /\ arg.comments[1].body.present
    /\ arg.comments[2].author = Text_bob /\ ~arg.comments[2].body.present
    /\ arg.comments[3].author = Text_bob /\ arg.comments[3].body.present
    /\ Len(res.out) = 2

\* The depth the claim gives each depth attribute of the model.
C7_DepthOf(attr) ==
    IF attr = <<"1">> THEN 1
    ELSE IF attr = <<"1", "2">> THEN 12
    ELSE IF attr = <<"-", "1">> THEN 0 - 1
    ELSE 0

\* The score the claim gives each score attribute of the model.
C7_ScoreOf(attr) ==
    IF attr \in {Null, <<>>, <<"x">>} THEN "0" ELSE Str(attr)

\* C7: an included comment's depth is 0 for an absent or non-numeric depth
\* attribute and the parsed integer otherwise; its score is 0 for an absent
\* or non-numeric score attribute, and the bullet line then reads 0 points.
C7_NumericDefaults ==
    res.done /\ res.out.ok =>
        /\ res.out.depth = C7_DepthOf(arg.depth)
        /\ Str(ToStr(res.out.score)) = C7_ScoreOf(arg.score)
        /\ res.md /= <<>> =>
            Str(SplitLines(res.md)[1]) =
                Str(Spaces(4 * res.out.depth)) \o "- **u/bob** (*" \o C7_ScoreOf(arg.score) \o " points*):"

\* The depth half of C7 alone, which the code keeps.
C7_DepthDefaults ==
    res.done /\ res.out.ok => res.out.depth = C7_DepthOf(arg.depth)

\* C8: for depth d >= 0 the output is the bullet line after d*4 spaces, then
\* one blockquote line per line of the body, each d*4 spaces and "  > " and
\* the line, then a blank line: k newlines in the body give k+1 blockquote
\* lines and no line without the prefix.
C8_FormatCommentShape ==
    res.done =>
        LET lines == SplitLines(res.out)
            body == SplitLines(arg.content)
            k == Newlines(arg.content)
            indent == Str(Spaces(4 * arg.depth))
        IN  /\ Len(body) = k + 1
            /\ Len(lines) = k + 4
            /\ Str(lines[1]) =
                indent \o "- **u/" \o Str(arg.author) \o "** (*" \o Str(arg.score) \o " points*):"
            /\ \A j \in 1..(k + 1) : Str(lines[1 + j]) = indent \o "  > " \o Str(body[j])
            /\ lines[k + 3] = <<>>
            /\ lines[k + 4] = <<>>

\* A two-level-deep comment whose body has two newlines.
C8_Witness ==
    /\ res.done
    /\ arg.depth = 2
    /\ arg.content = <<"a", NL, NL>>
    /\ Len(SplitLines(res.out)) = 6

\* The comment blocks of a document, in sequence order.
RECURSIVE C9_Blocks(_)
C9_Blocks(cs) ==
    IF cs = <<>> THEN "" ELSE Str(FormatComment(Head(cs))) \o C9_Blocks(Tail(cs))

C9_Example ==
    [post |-> [ok |-> TRUE, title |-> Text_HelloWorld, author |-> Text_alice,
               subreddit |-> Text_test, score |-> <<"1", "0">>, content |-> <<>>],
     comments |-> <<>>]

C10_LastMark(title) ==
    LET hits == {i \in 1..(Len(title) - 4) : SubSeq(title, i, i + 4) = SubredditMark}
    IN  IF hits = {} THEN 0 ELSE CHOOSE i \in hits : \A j \in hits : j <= i

\* The title without its trailing " : r/<subreddit>" suffix, nothing else removed.
C10_Stem(title) ==
    IF C10_LastMark(title) = 0 THEN title ELSE SubSeq(title, 1, C10_LastMark(title) - 1)

C10_NameChars == LowerSet \cup DigitSet \cup {"_"}

\* C10: the name is the title without its trailing " : r/<subreddit>"
\* suffix, each character that is no ASCII letter or digit replaced by "_",
\* lowercased, followed by ".md".
C10_DeriveFilename ==
    res.done =>
        /\ Len(res.out) = Len(C10_Stem(arg)) + 3
        /\ SubSeq(res.out, Len(res.out) - 2, Len(res.out)) = <<".", "m", "d">>
        /\ \A i \in 1..Len(C10_Stem(arg)) :
            /\ res.out[i] \in C10_NameChars
            /\ IsAlnum(C10_Stem(arg)[i]) => res.out[i] = ToLowerChar(C10_Stem(arg)[i])
            /\ ~IsAlnum(C10_Stem(arg)[i]) => res.out[i] = "_"
        /\ arg = Text_Title \o SubredditMark \o Text_test => Str(res.out) = "my_thread.md"
        /\ arg = <<>> => Str(res.out) = ".md"

-----------------------------------------------------------------------------
(* extractPostData on a post element, then formatPostHeader on its record *)

\* A post field: its typed property and its string attribute.
FieldSources(text) ==
    { [prop |-> pr, attr |-> at] : pr \in {Undefined, <<>>, text}, at \in {Null, <<>>, text} }

PostElements ==
    { [title |-> t, author |-> a, subreddit |-> sr, score |-> sc, body |-> NoElement] :
        t \in {[prop |-> Text_Title, attr |-> Null], [prop |-> Undefined, attr |-> Text_Title]},
        a \in {[prop |-> Undefined, attr |-> Text_alice], [prop |-> Undefined, attr |-> Null]},
        sr \in FieldSources(Text_test),
        sc \in FieldSources(<<"1", "0">>) }

InitPost ==
    /\ Idle
    /\ arg \in {[post |-> TRUE, postEl |-> e] : e \in PostElements}
    /\ res = NotApplied

ApplyExtractPost ==
    /\ ~res.done
    /\ res' = [done |-> TRUE, out |-> ExtractPostData(arg), md |-> <<>>]
    /\ UNCHANGED <<PageVars, arg>>

ApplyFormatPost ==
    /\ res.done
    /\ res.out.ok
    /\ res.md = <<>>
    /\ res' = [res EXCEPT !.md = FormatPostHeader(res.out)]
    /\ UNCHANGED <<PageVars, arg>>

SpecPost == InitPost /\ [][ApplyExtractPost \/ ApplyFormatPost]_vars

\* What the claim gives a field: the property when it has a value, else the
\* attribute when the element carries it, else the empty value.
C11_Resolved(f) ==
    IF f.prop \notin {Undefined, <<>>} THEN f.prop
    ELSE IF f.attr /= Null THEN f.attr
    ELSE <<>>

\* C11: extractPostData never fails for a missing field; each field is the
\* property, else the attribute; with neither, the record's score (subreddit)
\* is an empty value and its line of the header ends after the label.
C11_PostFieldFallback ==
    res.done =>
        /\ res.out.ok
        /\ \A f \in {"title", "author", "subreddit", "score"} :
            \/ res.out[f] = C11_Resolved(arg.postEl[f])
            \/ C11_Resolved(arg.postEl[f]) = <<>> /\ res.out[f] \in {Null, Undefined}
        /\ res.md /= <<>> =>
            /\ Str(SplitLines(res.md)[3]) =
                "**Subreddit:** r/" \o Str(C11_Resolved(arg.postEl.subreddit))
            /\ Str(SplitLines(res.md)[5]) =
                "**Score:** " \o Str(C11_Resolved(arg.postEl.score))

\* The fallback half of C11 alone, which the code keeps: no failure, and each
\* field is the property when truthy, else what getAttribute returns.
C11_FallbackOnly ==
    res.done =>
        /\ res.out.ok
        /\ \A f \in {"title", "author", "subreddit", "score"} :
            \/ res.out[f] = C11_Resolved(arg.postEl[f])
            \/ C11_Resolved(arg.postEl[f]) = <<>> /\ res.out[f] = Null

-----------------------------------------------------------------------------
(* Claims about repeated runs and about the button *)

\* C12 without regard to which script instance ran: any two deliveries made
\* with the same page as read have the same content and file name.
C12_SamePageSameDelivery ==
    \A i, j \in DOMAIN sink :
        outcome[sink[i].click].tree = outcome[sink[j].click].tree =>
            /\ sink[i].content = sink[j].content
            /\ sink[i].filename = sink[j].filename

\* C12: two runs of the same scrapeThread that read the same page (post,
\* comment elements and title never change here; the comment tree was there
\* for both or for neither) deliver the same content and the same file name.
C12_RerunIsIdentical ==
    \A i, j \in DOMAIN sink :
        /\ outcome[sink[i].click].inst = outcome[sink[j].click].inst
        /\ outcome[sink[i].click].tree = outcome[sink[j].click].tree
        => /\ sink[i].content = sink[j].content
           /\ sink[i].filename = sink[j].filename

\* Two deliveries by the same instance, both with the comment tree and a
\* comment in the document.
C12_Witness ==
    /\ Len(sink) = 2
    /\ outcome[1].inst = outcome[2].inst
    /\ outcome[1].tree = "present" /\ outcome[2].tree = "present"
    /\ ExtractAllComments(host) /= <<>>

C13_Step ==
    buttons' /= buttons /\ buttons' /= <<>> =>
        /\ buttons = <<>>
        /\ host.post /\ host.bar
        /\ loads >= 1
        /\ timers /= <<>> /\ timers' = Tail(timers)
        /\ buttons' = <<Head(timers)>>

C13_ClickStep ==
    clicks' /= clicks => clicks' = clicks + 1 /\ Len(runs') = Len(runs) + 1

\* C13: the document never holds two buttons; a button appears only in a
\* timer callback after a load event, when none exists and the post and its
\* credit bar are found, whichever instance's timer it is; a click starts
\* one run.
C13_AtMostOneButton ==
    /\ [](Len(buttons) <= 1 /\ (loads = 0 => buttons = <<>>))
    /\ [][C13_Step]_vars
    /\ [][C13_ClickStep]_vars

\* Both timers of a load ran and the second instance's added the button.
C13_Witness == loads >= 1 /\ timers = <<>> /\ buttons = <<2>>

====
